---- MODULE Spec2Model ----
(***************************************************************************)
(* CachedCompressedReadBuffer: readers of compressed files that share a    *)
(* cache of decompressed blocks (UncompressedCache).  Each reader is the   *)
(* object of CachedCompressedReadBuffer.h; the cache, the frame codec and  *)
(* the ReadBuffer base class are its collaborators.                        *)
(***************************************************************************)
EXTENDS Integers, Sequences, FiniteSets, TLC

\* ------------------------------------------------------------------ bounds

\* Width of size_t in the model: file_pos, bytes and compressed_size are
\* unsigned and wrap modulo 2^SizeBits.
SizeBits == 2

\* Capacity of the shared cache, in bytes of decompressed payload.
max_size == 2


SizeMod == 2 ^ SizeBits

\* a + b and a - b on size_t
Add(a, b) == (a + b) % SizeMod

Sub(a, b) == (a - b) % SizeMod

\* ------------------------------------------------------------------ sizes

\* DBMS_DEFAULT_BUFFER_SIZE and DEFAULT_AIO_FILE_BLOCK_SIZE (DB/Core/Defines.h).
DBMS_DEFAULT_BUFFER_SIZE == 1048576

DEFAULT_AIO_FILE_BLOCK_SIZE == 4096

\* ------------------------------------------------------------------ files

\* The readers whose whole state is followed.  The other reader sessions that
\* share the cache are followed by what they do to it (peer).
Readers == {1}

Paths == {1, 2, 3}

\* The files the followed readers are opened on: the two-frame file.  Paths 2
\* and 3 are read by the other sessions only.
ReaderPaths == {1}

\* The compressed files on disk: a sequence of frames, each with the number
\* of bytes it occupies in the file and its decompressed payload.
File(p) ==
  IF p = 1
  THEN << [compressed_size |-> 1, data |-> <<1, 2>>],
          [compressed_size |-> 2, data |-> <<3>>] >>
  ELSE IF p = 2
       THEN << [compressed_size |-> 2, data |-> <<4>>] >>
       ELSE << [compressed_size |-> 1, data |-> <<5, 6, 7>>] >>

RECURSIVE FrameStart(_, _)
\* Offset in the file of frame i (of the end of the file for i = Len + 1).
FrameStart(p, i) ==
  IF i = 1 THEN 0 ELSE FrameStart(p, i - 1) + File(p)[i - 1].compressed_size

FileSize(p) == FrameStart(p, Len(File(p)) + 1)

\* Offsets a caller seeks to: the frame starts (0, 1), the inside of a frame
\* (2) and the end of the file (3) of path 1.
SeekOffsets == {0, 1, 2, 3}

\* The offset_in_decompressed_block a caller passes to seek: inside, at the
\* end of, and beyond the payloads.
SeekDepths == {0, 1, 2}

\* Where the other sessions read: the frames of the files, as <<path, offset>>.
\* The frame of path 3 is larger than the cache's capacity.
PeerReads == { <<1, 0>>, <<1, 1>>, <<2, 0>>, <<3, 0>> }

\* Values an uninitialised size_t or the distance of a stale pointer can
\* take in the model.
Indeterminate == {0, 1}

\* ------------------------------------------------------- frame codec (external)

\* CompressedReadBufferBase::readCompressedData with the file positioned at
\* off: 0 at the end of the file, the sizes of the frame that starts at off,
\* an exception when off is no frame boundary (the checksum and the header do
\* not parse).
readCompressedData(p, off) ==
  IF off >= FileSize(p)
  THEN [kind |-> "eof", compressed_size |-> 0, size_decompressed |-> 0]
  ELSE IF \E i \in 1 .. Len(File(p)) : FrameStart(p, i) = off
       THEN LET i == CHOOSE j \in 1 .. Len(File(p)) : FrameStart(p, j) = off
            IN  [kind |-> "frame",
                 compressed_size |-> File(p)[i].compressed_size,
                 size_decompressed |-> Len(File(p)[i].data)]
       ELSE [kind |-> "error", compressed_size |-> 0, size_decompressed |-> 0]

\* CompressedReadBufferBase::decompress: the payload of the frame at off.
decompress(p, off) ==
  LET i == CHOOSE j \in 1 .. Len(File(p)) : FrameStart(p, j) = off
  IN  File(p)[i].data

\* ------------------------------------------------- UncompressedCache (external)

\* UncompressedCache::hash: one key per (path, offset).
hash(p, off) == p * SizeMod + off

\* The weight of a cell: the bytes of its decompressed payload.
weight(cell) == Len(cell.data)

\* Position of key in the recency queue, 0 when it is not resident.
CacheIndex(q, key) ==
  IF \E i \in 1 .. Len(q) : q[i].key = key
  THEN CHOOSE i \in 1 .. Len(q) : q[i].key = key
  ELSE 0

CacheRemove(q, i) == SubSeq(q, 1, i - 1) \o SubSeq(q, i + 1, Len(q))

\* get: the resident cell (a one-element sequence) or nullptr (<<>>).
get(q, key) ==
  IF CacheIndex(q, key) = 0 THEN <<>> ELSE << q[CacheIndex(q, key)].cell >>

\* get makes the entry the most recently used.
touch(q, key) ==
  LET i == CacheIndex(q, key)
  IN  IF i = 0 THEN q ELSE CacheRemove(q, i) \o << q[i] >>

\* Mutant of removeOverflow: nothing is evicted.
removeOverflowNever(q, size) == [queue |-> q, size |-> size]

RECURSIVE removeOverflowToEmpty(_, _)
\* Mutant of removeOverflow: eviction goes on until the weight fits, the entry
\* just inserted included.
removeOverflowToEmpty(q, size) ==
  IF size > max_size /\ Len(q) > 0
  THEN removeOverflowToEmpty(Tail(q), size - weight(Head(q).cell))
  ELSE [queue |-> q, size |-> size]

RECURSIVE removeOverflow(_, _)
\* Evict from the least recently used end while the weight exceeds the
\* capacity; the entry just inserted is the last one and stays.
removeOverflow(q, size) ==
  IF size > max_size /\ Len(q) > 1
  THEN removeOverflow(Tail(q), size - weight(Head(q).cell))
  ELSE [queue |-> q, size |-> size]

\* Mutant of set: the weight of an overwritten entry stays accounted.
setCountsTwice(q, size, key, cell) ==
  LET i == CacheIndex(q, key)
      q1 == IF i = 0 THEN q ELSE CacheRemove(q, i)
  IN  removeOverflow(q1 \o << [key |-> key, cell |-> cell] >>, size + weight(cell))

\* set: insert or overwrite, account the weight, evict.
set(q, size, key, cell) ==
  LET i == CacheIndex(q, key)
      q1 == IF i = 0 THEN q ELSE CacheRemove(q, i)
      size1 == IF i = 0 THEN size ELSE size - weight(q[i].cell)
  IN  removeOverflow(q1 \o << [key |-> key, cell |-> cell] >>, size1 + weight(cell))

\* ------------------------------------------------------------------ state

VARIABLES
  cache,         \* the cache's entries [key, cell], least recently used first
  current_size,  \* the cache's running total weight
  rd,            \* rd[r]: the fields of reader r and where it is in a call
  hist,          \* hist[r]: the last call reader r completed, what it delivered
  peer,          \* another session's nextImpl: its path, file_pos and position
  refs           \* refs[r]: who shares the cell rd[r].owned_cell points to

vars == << cache, current_size, rd, hist, peer, refs >>

\* A reader as constructed: ReadBuffer(nullptr, 0), file_pos(0), no cell, the
\* file not yet opened.  cfg is what the caller passes: memory (whether a
\* reusable buffer is supplied), m_capacity (that buffer's capacity),
\* buf_size, estimated_size and aio_threshold.  opens counts the calls of
\* createReadBufferFromFileBase.
Construct(p, cfg) ==
  [path |-> p, file_pos |-> 0, owned_cell |-> <<>>, working_buffer |-> <<>>,
   pos |-> 0, bytes |-> 0, file_in |-> FALSE, pc |-> "idle", arg |-> 0,
   memory |-> cfg.memory, m_capacity |-> cfg.m_capacity,
   buf_size |-> cfg.buf_size, estimated_size |-> cfg.estimated_size,
   aio_threshold |-> cfg.aio_threshold, opens |-> 0]

\* The readers of the files: a fresh reusable buffer, the default buffer size,
\* no asynchronous I/O.
NewReader(p) ==
  Construct(p, [memory |-> TRUE, m_capacity |-> 0,
                buf_size |-> DBMS_DEFAULT_BUFFER_SIZE,
                estimated_size |-> 0, aio_threshold |-> 0])

\* The shared ownership of the cell a reader's owned_cell points to
\* (MappedPtr is a counted pointer): the key the cell was looked up or created
\* under, whether the cache's table holds a reference to this very cell, and
\* how many counted references the reader holds.  NoCell: owned_cell is null.
NoCell == [key |-> 0, table |-> FALSE, own |-> 0]

\* The other sessions between two calls of nextImpl.
IdlePeer == [path |-> 1, file_pos |-> 0, pc |-> "idle"]

NoHist ==
  [op |-> "none", res |-> "none", how |-> "none", count0 |-> 0,
   fresh |-> TRUE, delivered |-> <<>>]

Init ==
  /\ cache = <<>>
  /\ current_size = 0
  /\ \E f \in [Readers -> ReaderPaths] : rd = [r \in Readers |-> NewReader(f[r])]
  /\ hist = [r \in Readers |-> NoHist]
  /\ peer = IdlePeer
  /\ refs = [r \in Readers |-> NoCell]

\* ------------------------------------------------------------------ reader

\* offset(): the cursor's distance from the start of the window.
offset(s) == s.pos

\* Memory::resize: the capacity grows to n when n does not fit, and never
\* shrinks.
memoryResize(cap, n) == IF n < cap THEN cap ELSE n

\* Memory::align: value rounded up to a multiple of sign.
align(value, sign) == ((value + sign - 1) \div sign) * sign

\* Mutant of resize: a buffer that is too small grows to exactly size.
resizeExact(cap, size) ==
  IF cap = 0 THEN memoryResize(cap, size)
  ELSE IF cap < size THEN memoryResize(cap, size)
  ELSE cap

\* Lines 42-48, the lambda resize: growth_factor * size is 1.6f * size
\* truncated to size_t.
resize(cap, size) ==
  IF cap = 0 THEN memoryResize(cap, size)
  ELSE IF cap < size THEN memoryResize(cap, (16 * size) \div 10)
  ELSE cap

\* Mutant of requested: a zero threshold does not select the plain rule.
requestedNoZeroCheck(s) ==
  IF s.estimated_size < s.aio_threshold
  THEN s.buf_size
  ELSE 2 * align(s.buf_size + DEFAULT_AIO_FILE_BLOCK_SIZE,
                 DEFAULT_AIO_FILE_BLOCK_SIZE)

\* Lines 50-53: the size initInput asks resize for.
requested(s) ==
  IF s.aio_threshold = 0 \/ s.estimated_size < s.aio_threshold
  THEN s.buf_size
  ELSE 2 * align(s.buf_size + DEFAULT_AIO_FILE_BLOCK_SIZE,
                 DEFAULT_AIO_FILE_BLOCK_SIZE)

\* Mutant of initInput: the file is opened again on every miss.
initInputReopens(s) ==
  [s EXCEPT !.m_capacity = IF s.memory THEN resize(@, requested(s)) ELSE @,
            !.file_in = TRUE,
            !.opens = IF @ < 2 THEN @ + 1 ELSE @]

\* initInput: on the first miss size the reusable buffer and open the file.
initInput(s) ==
  IF s.file_in
  THEN s
  ELSE [s EXCEPT !.m_capacity = IF s.memory THEN resize(@, requested(s)) ELSE @,
                 !.file_in = TRUE,
                 !.opens = @ + 1]

\* Mutants of nextImplKey: the offset, then the path, left out of the key.
nextImplKeyNoOffset(s) == hash(s.path, 0)

nextImplKeyNoPath(s) == hash(1, s.file_pos)

\* The key nextImpl looks up and publishes under.
nextImplKey(s) == hash(s.path, s.file_pos)

\* Mutant of acquire: the reader keeps a pointer that is not counted.
acquireUncounted(c, key) == [key |-> key, table |-> TRUE, own |-> 0]

\* Mutant of acquire: the reference to the previous cell is never released.
acquireKeepsOld(c, key) == [key |-> key, table |-> TRUE, own |-> c.own + 1]

\* Line 67 on a hit: owned_cell becomes a counted reference to the cell the
\* table holds under key; the reference owned_cell held (c) is released.
acquire(c, key) == [key |-> key, table |-> TRUE, own |-> 1]

\* Line 67: the references the reader holds when cache->get has returned and
\* the assignment has not yet released what owned_cell held.
heldDuringAssign(c, found) == c.own + (IF found # <<>> THEN 1 ELSE 0)

\* Line 75: owned_cell is the only reference to a new cell.
newCell(key) == [key |-> key, table |-> FALSE, own |-> 1]

\* Line 87: the table takes a reference to the reader's cell.
publish(c) == [c EXCEPT !.table = TRUE]

\* The table's reference after a set of key has left the queue q: it is gone
\* when the slot was overwritten or evicted.
dropped(c, q, key) ==
  IF c.table /\ (c.key = key \/ CacheIndex(q, c.key) = 0)
  THEN [c EXCEPT !.table = FALSE]
  ELSE c

\* Lines 75-84: a new cell, its compressed_size from readCompressedData and,
\* for a frame, its payload from decompress.  When readCompressedData throws
\* the new cell is left empty with compressed_size never assigned (g).
readCell(s, g) ==
  LET fr == readCompressedData(s.path, s.file_pos)
  IN  CASE fr.kind = "error" ->
             [thrown |-> TRUE, cell |-> [data |-> <<>>, compressed_size |-> g]]
        [] fr.kind = "eof" ->
             [thrown |-> FALSE, cell |-> [data |-> <<>>, compressed_size |-> 0]]
        [] OTHER ->
             [thrown |-> FALSE,
              cell |-> [data |-> decompress(s.path, s.file_pos),
                        compressed_size |-> fr.compressed_size]]

\* Mutant of shouldPublish: the end-of-stream cell is published too.
shouldPublishAlways(cell) == TRUE

\* Line 81: only a frame that was read is put into the cache.
shouldPublish(cell) == cell.compressed_size # 0

\* Mutant of advance: file_pos moves by the decompressed size.
advanceByPayload(file_pos, cell) == Add(file_pos, Len(cell.data))

\* Line 99.
advance(file_pos, cell) == Add(file_pos, cell.compressed_size)

\* Mutant of nextImplTail: the empty cell is not released (line 93 missing).
nextImplTailKeepsCell(s) ==
  LET cell == s.owned_cell[1]
  IN  IF Len(cell.data) = 0
      THEN [rd |-> s, res |-> FALSE]
      ELSE [rd |-> [s EXCEPT !.working_buffer = cell.data,
                             !.file_pos = Add(s.file_pos, cell.compressed_size)],
            res |-> TRUE]

\* Lines 91-101, with owned_cell resolved: the end of nextImpl.
nextImplTail(s) ==
  LET cell == s.owned_cell[1]
  IN  IF Len(cell.data) = 0
      THEN [rd |-> [s EXCEPT !.owned_cell = <<>>], res |-> FALSE]
      ELSE [rd |-> [s EXCEPT !.working_buffer = cell.data,
                             !.file_pos = advance(s.file_pos, cell)],
            res |-> TRUE]

\* ReadBuffer::next around nextImpl: bytes += offset() before it; after it an
\* exhausted reader's window is emptied and the cursor is put at its start.
nextBegin(s) == [s EXCEPT !.bytes = Add(@, offset(s))]

nextEnd(s, res) ==
  [s EXCEPT !.working_buffer = IF res THEN @ ELSE <<>>, !.pos = 0, !.pc = "idle"]

\* Mutant of fastPath: the fast path is never taken.
fastPathNever(s, c, d) == FALSE

\* Lines 116-118: the condition of seek's fast path.
fastPath(s, c, d) ==
  /\ s.owned_cell # <<>>
  /\ c = Sub(s.file_pos, s.owned_cell[1].compressed_size)
  /\ d <= Len(s.working_buffer)

\* Mutant of seekFast: bytes is not adjusted (lines 120 and 122 missing).
seekFastKeepsBytes(s, d) == [s EXCEPT !.pos = d]

\* Lines 120-122.
seekFast(s, d) == [s EXCEPT !.pos = d, !.bytes = Sub(Add(@, offset(s)), d)]

\* Mutant of seekBegin: file_pos is not moved (line 126 missing).
seekBeginKeepsFilePos(s, c) == [s EXCEPT !.bytes = Add(@, s.pos)]

\* Lines 126-128.
seekBegin(s, c) == [s EXCEPT !.file_pos = c, !.bytes = Add(@, offset(s))]

\* Lines 131-135, after nextImpl returned res.  On the throw pos keeps
\* pointing into the window nextImpl replaced: its offset in the new window
\* is indeterminate (g).
seekEnd(s, d, res, g) ==
  IF d > Len(s.working_buffer)
  THEN [rd |-> [s EXCEPT !.pos = IF res THEN g ELSE @, !.pc = "idle"],
        res |-> "oob"]
  ELSE [rd |-> [s EXCEPT !.pos = d, !.bytes = Sub(@, d), !.pc = "idle"],
        res |-> "ok"]

\* ------------------------------------------------------------------ history

\* hist[r] is not state of the program: op, res and how are the last call
\* reader r completed, its result and how the block was resolved; count0 is
\* bytes + offset() at the start of a seek that is waiting for the file;
\* delivered are the windows read_next has handed out to a reader that has
\* not called seek (fresh).

\* What the caller of a completed read_next saw.
AfterNext(h, res, how, window) ==
  [op |-> "read_next", res |-> res, how |-> how, count0 |-> 0,
   fresh |-> h.fresh,
   delivered |-> IF h.fresh /\ res = "true"
                 THEN Append(h.delivered, window)
                 ELSE h.delivered]

\* What the caller of a completed seek saw.
AfterSeek(res, how) ==
  [op |-> "seek", res |-> res, how |-> how, count0 |-> 0,
   fresh |-> FALSE, delivered |-> <<>>]

Bool(b) == IF b THEN "true" ELSE "false"

\* ------------------------------------------------------------------ actions

\* next(): nextImpl up to cache->get; on a hit the call completes here.
ReadNext(r) ==
  /\ rd[r].pc = "idle"
  /\ LET s0 == nextBegin(rd[r])
         key == nextImplKey(s0)
         found == get(cache, key)
     IN  IF found # <<>>
         THEN LET t == nextImplTail([s0 EXCEPT !.owned_cell = found])
                  s1 == nextEnd(t.rd, t.res)
              IN  /\ cache' = touch(cache, key)
                  /\ rd' = [rd EXCEPT ![r] = s1]
                  /\ refs' = [refs EXCEPT ![r] =
                       IF s1.owned_cell = <<>> THEN NoCell ELSE acquire(@, key)]
                  /\ hist' = [hist EXCEPT ![r] =
                       AfterNext(@, Bool(t.res), "hit", s1.working_buffer)]
         ELSE /\ rd' = [rd EXCEPT ![r] = [s0 EXCEPT !.owned_cell = <<>>,
                                                     !.pc = "next_miss"]]
              /\ refs' = [refs EXCEPT ![r] = NoCell]
              /\ UNCHANGED << cache, hist >>
  /\ UNCHANGED << current_size, peer >>

\* seek(c, d): the fast path, or the slow path up to cache->get; on a hit the
\* call completes here.
Seek(r, c, d) ==
  /\ rd[r].pc = "idle"
  /\ IF fastPath(rd[r], c, d)
     THEN /\ rd' = [rd EXCEPT ![r] = seekFast(@, d)]
          /\ hist' = [hist EXCEPT ![r] = AfterSeek("ok", "fast")]
          /\ UNCHANGED << cache, refs >>
     ELSE LET s0 == seekBegin(rd[r], c)
              key == nextImplKey(s0)
              found == get(cache, key)
          IN  IF found # <<>>
              THEN \E g \in Indeterminate :
                     LET t == nextImplTail([s0 EXCEPT !.owned_cell = found])
                         e == seekEnd(t.rd, d, t.res, g)
                     IN  /\ cache' = touch(cache, key)
                         /\ rd' = [rd EXCEPT ![r] = e.rd]
                         /\ refs' = [refs EXCEPT ![r] =
                              IF e.rd.owned_cell = <<>> THEN NoCell
                              ELSE acquire(@, key)]
                         /\ hist' = [hist EXCEPT ![r] = AfterSeek(e.res, "hit")]
              ELSE /\ rd' = [rd EXCEPT ![r] = [s0 EXCEPT !.owned_cell = <<>>,
                                                          !.pc = "seek_miss",
                                                          !.arg = d]]
                   /\ hist' = [hist EXCEPT ![r] =
                        [@ EXCEPT !.fresh = FALSE, !.delivered = <<>>,
                                  !.count0 = Add(rd[r].bytes, offset(rd[r]))]]
                   /\ refs' = [refs EXCEPT ![r] = NoCell]
                   /\ UNCHANGED cache
  /\ UNCHANGED << current_size, peer >>

\* The miss of nextImpl (lines 69-89) and the rest of the call it is in: open
\* the file, read and decompress the frame at file_pos, publish it.
Fetch(r) ==
  /\ rd[r].pc \in {"next_miss", "seek_miss"}
  /\ \E g \in Indeterminate :
       LET s0 == initInput(rd[r])
           key == nextImplKey(s0)
           got == readCell(s0, g)
           s1 == [s0 EXCEPT !.owned_cell = << got.cell >>]
           isNext == s0.pc = "next_miss"
       IN  IF got.thrown
           THEN /\ rd' = [rd EXCEPT ![r] = [s1 EXCEPT !.pc = "idle", !.arg = 0]]
                /\ hist' = [hist EXCEPT ![r] =
                     IF isNext
                     THEN AfterNext(@, "error", "miss", <<>>)
                     ELSE AfterSeek("error", "miss")]
                /\ refs' = [refs EXCEPT ![r] = newCell(key)]
                /\ UNCHANGED << cache, current_size >>
           ELSE LET put == IF shouldPublish(got.cell)
                           THEN set(cache, current_size, key, got.cell)
                           ELSE [queue |-> cache, size |-> current_size]
                    t == nextImplTail(s1)
                    n == nextEnd(t.rd, t.res)
                    e == seekEnd(t.rd, s0.arg, t.res, g)
                IN  /\ cache' = put.queue
                    /\ current_size' = put.size
                    /\ rd' = [rd EXCEPT ![r] =
                         IF isNext THEN n ELSE [e.rd EXCEPT !.arg = 0]]
                    /\ refs' = [q \in Readers |->
                         IF q # r
                         THEN IF shouldPublish(got.cell)
                              THEN dropped(refs[q], put.queue, key)
                              ELSE refs[q]
                         ELSE IF t.rd.owned_cell = <<>> THEN NoCell
                              ELSE IF shouldPublish(got.cell)
                                   THEN publish(newCell(key))
                                   ELSE newCell(key)]
                    /\ hist' = [hist EXCEPT ![r] =
                         IF isNext
                         THEN AfterNext(@, Bool(t.res), "miss", n.working_buffer)
                         ELSE AfterSeek(e.res, "miss")]
  /\ UNCHANGED peer

\* The consumer reads one byte of the window.
Read(r) ==
  /\ rd[r].pc = "idle"
  /\ rd[r].pos < Len(rd[r].working_buffer)
  /\ rd' = [rd EXCEPT ![r].pos = @ + 1]
  /\ UNCHANGED << cache, current_size, hist, peer, refs >>

\* Another session's nextImpl at at = <<path, file_pos>> up to cache->get
\* (lines 66-67).
PeerGet(at) ==
  /\ peer.pc = "idle"
  /\ LET s0 == [peer EXCEPT !.path = at[1], !.file_pos = at[2]]
         key == nextImplKey(s0)
     IN  IF get(cache, key) # <<>>
         THEN /\ cache' = touch(cache, key)
              /\ UNCHANGED peer
         ELSE /\ peer' = [s0 EXCEPT !.pc = "miss"]
              /\ UNCHANGED cache
  /\ UNCHANGED << current_size, rd, hist, refs >>

\* Another session's miss (lines 69-89).
PeerFetch ==
  /\ peer.pc = "miss"
  /\ LET got == readCell(peer, 0)
         put == IF ~got.thrown /\ shouldPublish(got.cell)
                THEN set(cache, current_size, nextImplKey(peer), got.cell)
                ELSE [queue |-> cache, size |-> current_size]
     IN  /\ cache' = put.queue
         /\ current_size' = put.size
         /\ refs' = [q \in Readers |->
              IF ~got.thrown /\ shouldPublish(got.cell)
              THEN dropped(refs[q], put.queue, nextImplKey(peer))
              ELSE refs[q]]
  /\ peer' = IdlePeer
  /\ UNCHANGED << rd, hist >>

Next ==
  \/ \E r \in Readers :
       \/ ReadNext(r)
       \/ \E c \in SeekOffsets, d \in SeekDepths : Seek(r, c, d)
       \/ Fetch(r)
       \/ Read(r)
  \/ \E at \in PeerReads : PeerGet(at)
  \/ PeerFetch

Spec == Init /\ [][Next]_vars

\* ------------------------------------------------------- sizing of the buffer

\* What callers construct a reader with: a reusable buffer or none, that
\* buffer's capacity left by its previous use, and the sizes.
Capacities == {0, 1, 1000, 4000, 20000}

BufSizes == {1, 5, 2000, 4096}

Thresholds == {0, 1, 4096}

EstimatedSizes == {0, 1, 4095, 4096}

Configs ==
  [memory : BOOLEAN, m_capacity : Capacities, buf_size : BufSizes,
   estimated_size : EstimatedSizes, aio_threshold : Thresholds]

SizingInit ==
  /\ cache = <<>>
  /\ current_size = 0
  /\ \E cfg \in Configs : rd = [r \in Readers |-> Construct(1, cfg)]
  /\ hist = [r \in Readers |-> NoHist]
  /\ peer = IdlePeer
  /\ refs = [r \in Readers |-> NoCell]

\* The first miss of reader r reaches initInput.
FirstOpen(r) ==
  /\ ~rd[r].file_in
  /\ rd' = [rd EXCEPT ![r] = initInput(@)]
  /\ UNCHANGED << cache, current_size, hist, peer, refs >>

SizingNext == \E r \in Readers : FirstOpen(r)

SizingSpec == SizingInit /\ [][SizingNext]_vars

\* ------------------------------------------------------------------ claims

\* The frame of file p that starts at offset c.
IsFrameStart(p, c) == \E i \in 1 .. Len(File(p)) : FrameStart(p, i) = c

FrameAt(p, c) == File(p)[CHOOSE i \in 1 .. Len(File(p)) : FrameStart(p, i) = c]

\* The step completes a read_next of reader r (on a hit, or after its miss).
NextReturns(r) ==
  /\ rd'[r].pc = "idle"
  /\ hist'[r].op = "read_next"
  /\ peer' = peer
  /\ rd'[r].pos = 0 \/ hist'[r].res = "error"
  /\ \/ rd[r].pc = "idle" /\ ReadNext(r)
     \/ rd[r].pc = "next_miss" /\ Fetch(r)

\* C1: after every read_next that returns true, on a hit and on a miss,
\* file_pos is the start of the frame just delivered plus that frame's
\* compressed size, and the window is that frame's decompressed payload.
C1_FilePosAfterFrame ==
  [][\A r \in Readers :
       NextReturns(r) /\ hist'[r].res = "true" =>
         /\ IsFrameStart(rd[r].path, rd[r].file_pos)
         /\ rd'[r].file_pos =
              rd[r].file_pos + FrameAt(rd[r].path, rd[r].file_pos).compressed_size
         /\ rd'[r].working_buffer = FrameAt(rd[r].path, rd[r].file_pos).data
         /\ rd'[r].owned_cell = << FrameAt(rd[r].path, rd[r].file_pos) >>]_vars

\* A read_next returned true from a cache hit to a reader that had also read
\* from the file before (file_in is only set on a miss).
C1_Witness ==
  \E r \in Readers :
    /\ hist[r].op = "read_next" /\ hist[r].res = "true" /\ hist[r].how = "hit"
    /\ rd[r].file_in
    /\ rd[r].file_pos = FileSize(rd[r].path)

\* The payloads of the frames of file p, in file order.
Payloads(p) == [i \in 1 .. Len(File(p)) |-> File(p)[i].data]

\* C2: a reader that only calls read_next gets the frames of its file in file
\* order, each once, then false, whatever the cache holds and whatever the
\* other sessions get, set and evict: the sequence delivered is the one an
\* empty cache gives, the file's payloads.
C2_DeliversFileInOrder ==
  \A r \in Readers :
    hist[r].fresh =>
      LET p == rd[r].path
          n == Len(hist[r].delivered)
      IN  /\ n <= Len(File(p))
          /\ hist[r].delivered = SubSeq(Payloads(p), 1, n)
          /\ hist[r].res # "error"
          /\ hist[r].res = "false" => n = Len(File(p))
          /\ hist[r].res = "true" => rd[r].working_buffer = hist[r].delivered[n]

\* A reader of the two-frame file got both frames and then false, while the
\* other sessions' sets had evicted the first frame from the cache.
C2_Witness ==
  \E r \in Readers :
    /\ hist[r].fresh /\ Len(hist[r].delivered) = 2
    /\ hist[r].res = "false"
    /\ cache # <<>>
    /\ get(cache, hash(rd[r].path, 0)) = <<>>

\* C3: every block the cache returns for hash(path, offset) is the frame of
\* that path at that offset, payload and compressed_size, as the miss that
\* published it decoded it; no key holds a block of another path or offset.
C3_CacheHoldsTheFrameOfItsKey ==
  \A i \in 1 .. Len(cache) :
    \E p \in Paths : \E j \in 1 .. Len(File(p)) :
      /\ cache[i].key = hash(p, FrameStart(p, j))
      /\ cache[i].cell = File(p)[j]

\* A read_next missed, published the frame it decoded, and get returns the
\* block the reader holds; the cache also holds a block of another path.
C3_Witness ==
  \E r \in Readers :
    /\ hist[r].op = "read_next" /\ hist[r].res = "true" /\ hist[r].how = "miss"
    /\ rd[r].owned_cell # <<>>
    /\ get(cache, hash(rd[r].path,
                       rd[r].file_pos - rd[r].owned_cell[1].compressed_size))
         = rd[r].owned_cell
    /\ \E i \in 1 .. Len(cache) : cache[i].key \div SizeMod # rd[r].path

\* C4: no resident block has a zero-length payload: the end-of-stream block is
\* never put into the cache, so get at an exhausted offset finds none.
C4_NoEmptyBlockInCache ==
  \A i \in 1 .. Len(cache) : Len(cache[i].cell.data) > 0

\* A call missed at the end of the file and reported exhaustion; the cache
\* holds blocks, none under that offset's key.
C4_Witness ==
  \E r \in Readers :
    /\ hist[r].res = "false" /\ hist[r].how = "miss"
    /\ rd[r].file_pos >= FileSize(rd[r].path)
    /\ cache # <<>>
    /\ get(cache, hash(rd[r].path, rd[r].file_pos)) = <<>>

\* The block read_next resolves in this step is empty: it completes on a hit
\* on an empty block, or its miss finds the end of the file.
ResolvesEmpty(r) ==
  IF rd[r].pc = "idle"
  THEN /\ get(cache, hash(rd[r].path, rd[r].file_pos)) # <<>>
       /\ Len(get(cache, hash(rd[r].path, rd[r].file_pos))[1].data) = 0
  ELSE readCompressedData(rd[r].path, rd[r].file_pos).kind = "eof"

\* C5: when the block read_next resolves at file_pos is empty, read_next
\* returns false, the reader holds no block and file_pos is unchanged; and a
\* read_next that follows a read_next that returned false (no seek between)
\* returns false too.
C5_ExhaustedReleasesAndStays ==
  [][\A r \in Readers :
       NextReturns(r) =>
         /\ ResolvesEmpty(r) =>
              /\ hist'[r].res = "false"
              /\ rd'[r].owned_cell = <<>>
              /\ rd'[r].file_pos = rd[r].file_pos
         /\ hist[r].op = "read_next" /\ hist[r].res = "false" =>
              hist'[r].res = "false"]_vars

\* A reader read its two-frame file to the end: read_next returned false at
\* the end of the file and the reader holds nothing.
C5_Witness ==
  \E r \in Readers :
    /\ hist[r].op = "read_next" /\ hist[r].res = "false"
    /\ hist[r].fresh /\ Len(hist[r].delivered) = 2
    /\ rd[r].owned_cell = <<>>
    /\ rd[r].file_pos = FileSize(rd[r].path)

\* The condition of the fast path as the claims state it: the reader holds a
\* block, c is the start of its frame, d is within the window.
InHeldBlock(s, c, d) ==
  /\ s.owned_cell # <<>>
  /\ c = Sub(s.file_pos, s.owned_cell[1].compressed_size)
  /\ d <= Len(s.working_buffer)

\* What every step that completes a seek of reader r does.
SeekReturns(r) ==
  /\ rd'[r].pc = "idle"
  /\ hist'[r].op = "seek"
  /\ peer' = peer

\* The step is a seek(c, d) of reader r that completes without waiting for
\* the file: by the fast path or on a cache hit.
SeekReturnsAtOnce(r, c, d) ==
  /\ rd[r].pc = "idle"
  /\ rd'[r].pc = "idle"
  /\ hist'[r].op = "seek"
  /\ hist'[r].how # "miss"
  /\ peer' = peer
  /\ Seek(r, c, d)

\* The step completes a seek(c, d) of reader r that did not take the fast
\* path: on a cache hit, or after its miss.
SeekSlowReturns(r, c, d) ==
  \/ /\ ~InHeldBlock(rd[r], c, d)
     /\ SeekReturnsAtOnce(r, c, d)
  \/ /\ rd[r].pc = "seek_miss"
     /\ rd[r].file_pos = c
     /\ rd[r].arg = d
     /\ Fetch(r)

\* The payload length of the block a load at offset c of file p yields: the
\* frame's, 0 at the end of the file.
LoadedLen(p, c) == IF IsFrameStart(p, c) THEN Len(FrameAt(p, c).data) ELSE 0

\* C6: a slow-path seek(c, d) whose d is greater than the payload length of
\* the block it loads at c (zero when the file is exhausted at c) fails with
\* ARGUMENT_OUT_OF_BOUND.
C6_OutOfBoundsAgainstLoadedBlock ==
  [][\A r \in Readers : SeekReturns(r) =>
     \A c \in SeekOffsets : \A d \in SeekDepths :
       /\ SeekSlowReturns(r, c, d)
       /\ readCompressedData(rd[r].path, c).kind # "error"
       /\ d > LoadedLen(rd[r].path, c)
       => hist'[r].res = "oob"]_vars

\* C7: a slow-path seek(c, d) to a frame at c with payload length L > 0 and
\* d <= L leaves the reader holding that frame's block, the cursor at byte d
\* of it and file_pos = c + the frame's compressed size, on a hit and on a
\* miss.
C7_SlowSeekLoadsFrame ==
  [][\A r \in Readers : SeekReturns(r) =>
     \A c \in SeekOffsets : \A d \in SeekDepths :
       /\ IsFrameStart(rd[r].path, c)
       /\ d <= LoadedLen(rd[r].path, c)
       /\ SeekSlowReturns(r, c, d)
       => /\ hist'[r].res = "ok"
          /\ rd'[r].owned_cell = << FrameAt(rd[r].path, c) >>
          /\ rd'[r].working_buffer = FrameAt(rd[r].path, c).data
          /\ rd'[r].pos = d
          /\ rd'[r].file_pos = c + FrameAt(rd[r].path, c).compressed_size]_vars

\* After read_next delivered the first frame, seek(1, 1) missed the cache and
\* left the reader in the second frame at its byte 1.
C7_Witness ==
  \E r \in Readers :
    /\ hist[r].op = "seek" /\ hist[r].res = "ok" /\ hist[r].how = "miss"
    /\ rd[r].path = 1
    /\ rd[r].owned_cell = << File(1)[2] >>
    /\ rd[r].pos = 1
    /\ rd[r].file_pos = FileSize(1)

\* What a consumer observes of a reader.
Observable(s) ==
  [owned_cell |-> s.owned_cell, working_buffer |-> s.working_buffer,
   pos |-> s.pos, file_pos |-> s.file_pos]

\* The outcomes of a slow-path reload of reader state s at (c, d), with the
\* cache as it is: the block comes from the cache or from the file.
SlowReload(s, c, d) ==
  LET s0 == seekBegin(s, c)
      found == get(cache, nextImplKey(s0))
  IN  { IF found = <<>> /\ readCell(s0, g).thrown
        THEN [rd |-> [s0 EXCEPT !.owned_cell = << readCell(s0, g).cell >>],
              res |-> "error"]
        ELSE LET cell == IF found # <<>> THEN found ELSE << readCell(s0, g).cell >>
                 tl == nextImplTail([s0 EXCEPT !.owned_cell = cell])
             IN  seekEnd(tl.rd, d, tl.res, g) : g \in Indeterminate }

\* C8: whenever seek(c, d) takes the fast path, the reader state it leaves
\* (held block, window, cursor, file_pos) is the one a slow-path reload at
\* (c, d) produces.
C8_FastEqualsSlow ==
  [][\A r \in Readers : SeekReturns(r) =>
     \A c \in SeekOffsets : \A d \in SeekDepths :
       /\ InHeldBlock(rd[r], c, d)
       /\ SeekReturnsAtOnce(r, c, d)
       => \E o \in SlowReload(rd[r], c, d) :
            /\ o.res = "ok"
            /\ Observable(o.rd) = Observable(rd'[r])]_vars

\* C9: a fast-path seek changes the cursor and bytes only: the cache, its
\* weight and recency order, file_pos, the held block, the window and the
\* file handle stay as they are.
C9_FastPathFrame ==
  [][\A r \in Readers : SeekReturns(r) =>
     \A c \in SeekOffsets : \A d \in SeekDepths :
       /\ InHeldBlock(rd[r], c, d)
       /\ SeekReturnsAtOnce(r, c, d)
       => /\ cache' = cache
          /\ current_size' = current_size
          /\ rd'[r] = [rd[r] EXCEPT !.pos = d, !.bytes = rd'[r].bytes]]_vars

\* A seek returned by the fast path to a reader that holds a block, its
\* window that block's payload, while the cache held two entries.
C9_Witness ==
  \E r \in Readers :
    /\ hist[r].op = "seek" /\ hist[r].how = "fast"
    /\ rd[r].owned_cell # <<>>
    /\ rd[r].working_buffer = rd[r].owned_cell[1].data
    /\ Len(cache) = 2

\* C10: a seek that returns normally, by either path, leaves bytes + offset()
\* as it was when the seek was called.
C10_SeekKeepsCount ==
  [][\A r \in Readers :
       /\ SeekReturns(r)
       /\ hist'[r].res = "ok"
       /\ rd'[r] # rd[r]
       /\ \/ \E c \in SeekOffsets, d \in SeekDepths : SeekReturnsAtOnce(r, c, d)
          \/ rd[r].pc = "seek_miss" /\ Fetch(r)
       => Add(rd'[r].bytes, rd'[r].pos) =
            IF rd[r].pc = "idle"
            THEN Add(rd[r].bytes, rd[r].pos)
            ELSE hist[r].count0]_vars

\* A fast-path seek moved the cursor forward past bytes not yet read: bytes
\* wrapped below zero and bytes + offset() is still 0.
C10_Witness ==
  \E r \in Readers :
    /\ hist[r].op = "seek" /\ hist[r].res = "ok" /\ hist[r].how = "fast"
    /\ rd[r].pos > 0
    /\ rd[r].bytes = SizeMod - rd[r].pos

RECURSIVE ResidentWeight(_)
\* The total weight of the entries resident in the recency queue q.
ResidentWeight(q) ==
  IF q = <<>> THEN 0 ELSE weight(Head(q).cell) + ResidentWeight(Tail(q))

C12_InsertedBlockStays ==
  [][/\ \A r \in Readers :
          /\ peer' = peer
          /\ rd[r].pc \in {"next_miss", "seek_miss"}
          /\ Fetch(r)
          /\ ~readCell(rd[r], 0).thrown
          /\ shouldPublish(readCell(rd[r], 0).cell)
          => get(cache', nextImplKey(rd[r])) = << readCell(rd[r], 0).cell >>
     /\ /\ rd' = rd
        /\ peer.pc = "miss"
        /\ PeerFetch
        /\ ~readCell(peer, 0).thrown
        /\ shouldPublish(readCell(peer, 0).cell)
        => get(cache', nextImplKey(peer)) = << readCell(peer, 0).cell >>]_vars

\* Another session published the frame of path 3, larger than the capacity:
\* get returns it and nothing else is resident.
C12_Witness ==
  /\ peer.pc = "idle"
  /\ weight(FrameAt(3, 0)) > max_size
  /\ get(cache, hash(3, 0)) = << FrameAt(3, 0) >>
  /\ Len(cache) = 1

\* C13: the block a reader holds stays alive as long as the reader holds it
\* (some counted reference to it is left, the table's or the reader's own),
\* whatever the other sessions' sets evict or overwrite, and it remains the
\* frame it was loaded as; when
\* the table no longer holds it, get of its key misses or returns the block
\* another session published there.
C13_HeldBlockSurvives ==
  \A r \in Readers :
    rd[r].owned_cell # <<>> =>
      /\ refs[r].table \/ refs[r].own >= 1
      /\ Len(rd[r].owned_cell[1].data) > 0 =>
           \E j \in 1 .. Len(File(rd[r].path)) :
             /\ refs[r].key = hash(rd[r].path, FrameStart(rd[r].path, j))
             /\ rd[r].owned_cell[1] = File(rd[r].path)[j]
      /\ refs[r].table => get(cache, refs[r].key) = rd[r].owned_cell

\* A reader took its block from the cache; the other sessions' sets have since
\* evicted it, get of its key misses, and the reader still holds it with the
\* window on its payload.
C13_Witness ==
  \E r \in Readers :
    /\ hist[r].how = "hit" /\ hist[r].res \in {"true", "ok"}
    /\ rd[r].owned_cell # <<>>
    /\ rd[r].working_buffer = rd[r].owned_cell[1].data
    /\ ~refs[r].table
    /\ get(cache, refs[r].key) = <<>>
    /\ cache # <<>>

\* C14: under every interleaving of the sessions' gets and sets, two sessions
\* missing on the same (path, offset) and both publishing included, the
\* cache's running weight is the sum of the payload sizes of the resident
\* entries (an overwritten key is counted once) and a key has one entry.
C14_WeightIsSumOfResident ==
  /\ current_size = ResidentWeight(cache)
  /\ \A i, j \in 1 .. Len(cache) : cache[i].key = cache[j].key => i = j

\* A reader and another session both missed on the same key and both
\* published: the table holds the other session's block under the key, the
\* reader the block of its own miss, and the cache holds a second entry.
C14_Witness ==
  \E r \in Readers :
    /\ hist[r].how = "miss" /\ hist[r].res \in {"true", "ok"}
    /\ rd[r].owned_cell # <<>>
    /\ ~refs[r].table
    /\ get(cache, refs[r].key) = rd[r].owned_cell
    /\ peer.pc = "idle"
    /\ Len(cache) = 2

\* What initInput decides of reader state s: the handle, the number of opens
\* and the capacity of the reusable buffer.
ByteSource(s) ==
  [file_in |-> s.file_in, opens |-> s.opens, m_capacity |-> s.m_capacity]

\* C15: the file is opened lazily and at most once per reader: a step of a
\* call up to its cache lookup, served by a hit or by the fast path, leaves
\* the byte source as it is (not opened, not sized); the first miss opens it
\* and sizes the buffer; a later miss keeps the handle and the capacity.
C15_OpensOnceOnMiss ==
  [][\A r \in Readers :
       /\ rd'[r].opens <= 1
       /\ rd'[r].file_in <=> rd'[r].opens = 1
       /\ rd[r].pc = "idle" => ByteSource(rd'[r]) = ByteSource(rd[r])
       /\ rd[r].pc # "idle" /\ rd'[r].pc = "idle" =>
            /\ rd'[r].file_in
            /\ rd[r].file_in => ByteSource(rd'[r]) = ByteSource(rd[r])
            /\ ~rd[r].file_in => rd'[r].m_capacity = rd[r].buf_size]_vars

\* A call was served by a cache hit after an earlier miss of the reader had
\* opened the file and sized the buffer.
C15_Witness ==
  \E r \in Readers :
    /\ hist[r].how = "hit" /\ hist[r].res \in {"true", "ok"}
    /\ rd[r].file_in
    /\ rd[r].opens = 1
    /\ rd[r].m_capacity = rd[r].buf_size

\* The plain sizing rule applies to reader state s.
PlainRule(s) == s.aio_threshold = 0 \/ s.estimated_size < s.aio_threshold

\* C16: on the first open with a reusable buffer and the plain rule, a buffer
\* of capacity zero gets exactly buf_size; a non-empty buffer smaller than
\* buf_size gets 1.6 times buf_size (rounded down), which is more than
\* buf_size; a buffer of at least buf_size is left as it is; the capacity
\* never shrinks.
C16_BufferGrowth ==
  [][\A r \in Readers :
       FirstOpen(r) /\ rd[r].memory /\ PlainRule(rd[r]) =>
         LET cap == rd[r].m_capacity
             size == rd[r].buf_size
             new == rd'[r].m_capacity
         IN  /\ cap = 0 => new = size
             /\ cap # 0 /\ cap < size =>
                  /\ 10 * new <= 16 * size
                  /\ 16 * size < 10 * (new + 1)
             /\ cap >= size => new = cap
             /\ new >= cap]_vars

\* A buffer of capacity 1000 was opened with buf_size 2000: its capacity is
\* 3200.
C16_Witness ==
  \E r \in Readers :
    /\ rd[r].file_in /\ rd[r].memory /\ PlainRule(rd[r])
    /\ rd[r].buf_size = 2000
    /\ rd[r].m_capacity = 3200

\* C17: on the first open the size asked for is buf_size when aio_threshold
\* is zero or estimated_size is below it (for a zero threshold whatever
\* estimated_size is), and otherwise twice buf_size + the I/O block size
\* rounded up to the block size: a fresh buffer gets exactly that capacity,
\* any buffer at least that.
C17_SizingRule ==
  [][\A r \in Readers :
       FirstOpen(r) /\ rd[r].memory =>
         LET cap == rd[r].m_capacity
             size == rd[r].buf_size
             unit == DEFAULT_AIO_FILE_BLOCK_SIZE
             new == rd'[r].m_capacity
         IN  IF rd[r].aio_threshold = 0
                \/ rd[r].estimated_size < rd[r].aio_threshold
             THEN /\ new >= size
                  /\ cap = 0 => new = size
                  /\ cap >= size => new = cap
             ELSE /\ new >= 2 * (size + unit)
                  /\ cap = 0 =>
                       /\ new % (2 * unit) = 0
                       /\ new < 2 * (size + 2 * unit)]_vars

\* A fresh buffer was opened with estimated_size at the threshold: its
\* capacity is a multiple of twice the block size, above buf_size.
C17_Witness ==
  \E r \in Readers :
    /\ rd[r].file_in /\ rd[r].memory
    /\ rd[r].aio_threshold # 0
    /\ rd[r].estimated_size = rd[r].aio_threshold
    /\ rd[r].m_capacity = 2 * (DEFAULT_AIO_FILE_BLOCK_SIZE + DEFAULT_AIO_FILE_BLOCK_SIZE)
    /\ rd[r].buf_size < DEFAULT_AIO_FILE_BLOCK_SIZE

ReaderSteps(r) ==
  /\ rd[r].pc = "idle"
  /\ peer' = peer
  /\ rd'[r] # rd[r]

\* The step is a step of reader r that executes line 67 at offset c: the
\* start of a read_next at file_pos = c, or of a seek to c that does not take
\* the fast path.
LooksUp(r, c) ==
  \/ c = rd[r].file_pos /\ ReadNext(r)
  \/ \E d \in SeekDepths : ~fastPath(rd[r], c, d) /\ Seek(r, c, d)

\* The references reader r holds while line 67 assigns the result of the
\* lookup at offset c.
HeldAtLookup(r, c) ==
  heldDuringAssign(refs[r], get(cache, hash(rd[r].path, c)))

\* C19: a reader holds at most one block reference at any time: when a
\* read_next or a slow-path seek replaces the held block, the previous
\* reference is released before the new one is acquired.
C19_OneReferenceAtAnyTime ==
  [][\A r \in Readers :
       /\ refs'[r].own <= 1
       /\ ReaderSteps(r) =>
            \A c \in SeekOffsets : LooksUp(r, c) => HeldAtLookup(r, c) <= 1]_vars

\* C19 as amended: between the statements of its calls a reader holds at most
\* one block reference, the one in owned_cell; on a miss the previous
\* reference is released before the new cell is created; on a hit get has
\* returned the new reference when the assignment releases the previous one,
\* so during that assignment the reader holds at most two.
C19_OneReferenceBetweenStatements ==
  [][\A r \in Readers :
       /\ refs'[r].own <= 1
       /\ refs'[r].own = 1 <=> rd'[r].owned_cell # <<>>
       /\ rd'[r].pc # "idle" => refs'[r].own = 0
       /\ ReaderSteps(r) =>
            \A c \in SeekOffsets :
              LooksUp(r, c) =>
                /\ HeldAtLookup(r, c) <= 2
                /\ get(cache, hash(rd[r].path, c)) = <<>> =>
                     HeldAtLookup(r, c) <= 1]_vars

\* A reader of the two-frame file took the second frame from the cache while
\* it held the first.
C19_Witness ==
  \E r \in Readers :
    /\ hist[r].op = "read_next" /\ hist[r].how = "hit" /\ hist[r].res = "true"
    /\ hist[r].fresh /\ Len(hist[r].delivered) = 2
    /\ refs[r].own = 1
    /\ refs[r].table

\* C20: between calls, after a call that did not fail in the frame read,
\* whenever a reader's window is not empty the reader holds a counted
\* reference to a block and the window is that block's payload: window and
\* cursor never refer to a block the reader released.
C20_WindowBackedByHeldBlock ==
  \A r \in Readers :
    /\ rd[r].pc = "idle"
    /\ hist[r].res # "error"
    /\ Len(rd[r].working_buffer) > 0
    =>
      /\ rd[r].owned_cell # <<>>
      /\ refs[r].own >= 1
      /\ rd[r].working_buffer = rd[r].owned_cell[1].data

====
